---- MODULE Spec2Model ----
(***************************************************************************)
(* View selection of packages/ckeditor5-engine/src/view/selection.js:      *)
(* the stored ranges, the direction flag of the last range, the fake       *)
(* selection metadata, the queries on them, the two mutators _setTo and    *)
(* _setFocus, and the 'change' event they fire.                            *)
(*                                                                         *)
(* Position, Range and Node live in ./position, ./range and ./node.  A      *)
(* position is modelled by its place in document order, a range by its     *)
(* two positions, start not after end.                                     *)
(***************************************************************************)
EXTENDS Integers, Sequences, FiniteSets, TLC

\* Longest iterable of ranges handed to _setTo or to the constructor.
MaxLen == 2

\* The document: a root element that holds one empty element.  Its positions,
\* each a parent and an offset in it, in document order.
Document ==
    <<[parent |-> "root", offset |-> 0],
      [parent |-> "element", offset |-> 0],
      [parent |-> "root", offset |-> 1]>>

\* A position is its place in Document.
Positions == DOMAIN Document

\* null, where a position is expected (anchor and focus of an empty selection).
Null == 0

(***************************************************************************)
(* Position (./position)                                                   *)
(***************************************************************************)
compareWith(position, otherPosition) ==
    IF position = otherPosition THEN "same"
    ELSE IF position < otherPosition THEN "before" ELSE "after"

isBefore(position, otherPosition) == compareWith(position, otherPosition) = "before"

isAfter(position, otherPosition) == compareWith(position, otherPosition) = "after"

createFromPosition(position) == position

\* new Position( parent, offset )
Position(parent, offset) ==
    CHOOSE position \in Positions : Document[position] = [parent |-> parent, offset |-> offset]

\* Position.createAt( itemOrPosition ) for a Position argument.
createAt(itemOrPosition) == createFromPosition(itemOrPosition)

(***************************************************************************)
(* Range (./range).  A value handed in where a range is expected carries   *)
(* isRange, the outcome of `instanceof Range`.  A range is an object: it   *)
(* carries heldBy, who came to hold a reference to it when it was made or  *)
(* stored: the caller of the selection's methods, the _ranges array of a   *)
(* selection.                                                              *)
(***************************************************************************)
\* new Range( start, end ): an object nobody holds yet.
Range(start, end) == [isRange |-> TRUE, start |-> start, end |-> end, heldBy |-> {}]

createFromRange(range) == Range(range.start, range.end)

\* The object with one more holder of a reference to it.
HeldBy(range, holder) == [range EXCEPT !.heldBy = @ \cup {holder}]

\* What a caller may hand in as a range that is none.
NotARange == [isRange |-> FALSE, start |-> Null, end |-> Null, heldBy |-> {"caller"}]

\* The ranges a caller holds and may hand in.
Ranges ==
    {HeldBy(range, "caller") :
        range \in {r \in {Range(s, e) : s \in Positions, e \in Positions} : r.start <= r.end}}

isCollapsed(range) == range.start = range.end

isIntersecting(range, otherRange) ==
    isBefore(range.start, otherRange.end) /\ isAfter(range.end, otherRange.start)

\* range.getTrimmed(): the edges narrowed inward past the tags of the empty
\* element, so that an edge right outside the element moves into it.
getTrimmed(range) ==
    LET inner == CHOOSE position \in Positions : Document[position].parent # "root"
    IN  Range(IF isBefore(range.start, inner) /\ ~isBefore(range.end, inner) THEN inner ELSE range.start,
              IF isAfter(range.end, inner) /\ ~isAfter(range.start, inner) THEN inner ELSE range.end)

(***************************************************************************)
(* Node (./node): the element of the document, child 0 of the root.        *)
(***************************************************************************)
Nodes == {"element"}

\* The offsets in item: 0..childCount.
Offsets(item) == {Document[position].offset : position \in {q \in Positions : Document[q].parent = item}}

childCount(item) == CHOOSE n \in Offsets(item) : \A m \in Offsets(item) : m <= n

createIn(item) == Range(Position(item, 0), Position(item, childCount(item)))

createOn(item) == Range(Position("root", 0), Position("root", 1))

createCollapsedAt(item, offset) == Range(Position(item, offset), Position(item, offset))

(***************************************************************************)
(* CKEditorError                                                           *)
(***************************************************************************)
NoRange == [isRange |-> FALSE, start |-> Null, end |-> Null, heldBy |-> {}]

CKEditorError(code, addedRange, intersectingRange) ==
    [code |-> code, addedRange |-> addedRange, intersectingRange |-> intersectingRange]

\* No error: the call returned.
Returned == CKEditorError("none", NoRange, NoRange)

(***************************************************************************)
(* The object during a call: its four fields, the error thrown so far, the  *)
(* 'change' events fired so far, each with the fields a listener sees, and *)
(* the listener for 'change', if one is registered: it is registered with  *)
(* once() and calls _setTo or _setFocus on the selection it hears from.    *)
(***************************************************************************)
\* No listener is registered.
NoListener == [method |-> "none", arguments |-> <<>>]

Fields(this) ==
    [_ranges |-> this._ranges,
     _lastRangeBackward |-> this._lastRangeBackward,
     _isFake |-> this._isFake,
     _fakeSelectionLabel |-> this._fakeSelectionLabel]

Enter(fields) ==
    [_ranges |-> fields._ranges,
     _lastRangeBackward |-> fields._lastRangeBackward,
     _isFake |-> fields._isFake,
     _fakeSelectionLabel |-> fields._fakeSelectionLabel,
     thrown |-> Returned,
     fired |-> <<>>,
     listener |-> NoListener]

\* The object at entry of a call while the listener is registered.
Listened(fields, listener) == [Enter(fields) EXCEPT !.listener = listener]

Throw(this, error) == [this EXCEPT !.thrown = error]

Thrown(this) == this.thrown # Returned

RECURSIVE _setTo(_, _, _, _)
RECURSIVE _setFocus(_, _)

\* this.fire( 'change' ): the listener, taken off before it is called, runs at
\* once and to its end, and what it throws is thrown by fire.
fire(this) ==
    LET notified == [this EXCEPT !.fired = Append(@, Fields(this)), !.listener = NoListener]
        arguments == this.listener.arguments
    IN  IF this.listener.method = "_setTo"
        THEN _setTo(notified, arguments[1], arguments[2], arguments[3])
        ELSE IF this.listener.method = "_setFocus"
        THEN _setFocus(notified, arguments[1])
        ELSE notified

(***************************************************************************)
(* Getters                                                                 *)
(***************************************************************************)
rangeCount(this) == Len(this._ranges)

anchor(this) ==
    IF Len(this._ranges) = 0 THEN Null
    ELSE LET range == this._ranges[Len(this._ranges)]
         IN  createFromPosition(IF this._lastRangeBackward THEN range.end ELSE range.start)

focus(this) ==
    IF Len(this._ranges) = 0 THEN Null
    ELSE LET range == this._ranges[Len(this._ranges)]
         IN  createFromPosition(IF this._lastRangeBackward THEN range.start ELSE range.end)

selectionIsCollapsed(this) == rangeCount(this) = 1 /\ isCollapsed(this._ranges[1])

isBackward(this) == ~selectionIsCollapsed(this) /\ this._lastRangeBackward

rangeIsEqual(range, otherRange) == range.start = otherRange.start /\ range.end = otherRange.end

isEqual(this, otherSelection) ==
    IF this._isFake # otherSelection._isFake THEN FALSE
    ELSE IF this._isFake /\ this._fakeSelectionLabel # otherSelection._fakeSelectionLabel THEN FALSE
    ELSE IF rangeCount(this) # rangeCount(otherSelection) THEN FALSE
    ELSE IF rangeCount(this) = 0 THEN TRUE
    ELSE IF anchor(this) # anchor(otherSelection) \/ focus(this) # focus(otherSelection) THEN FALSE
    ELSE \A i \in 1..Len(this._ranges) :
            \E j \in 1..Len(otherSelection._ranges) :
                rangeIsEqual(this._ranges[i], otherSelection._ranges[j])

\* A getRanges that yields the ranges last first.
GetRangesReversed(selectable) ==
    [lazy |-> TRUE, isThis |-> selectable.isThis,
     items |-> [i \in 1..Len(selectable._ranges) |-> selectable._ranges[Len(selectable._ranges) + 1 - i]]]

\* The generator: nothing is read before the first element is asked for.
getRanges(selectable) == [lazy |-> TRUE, isThis |-> selectable.isThis, items |-> selectable._ranges]

\* An array of ranges.
Array(items) == [lazy |-> FALSE, isThis |-> FALSE, items |-> items]

\* The elements a for-of over newRanges yields, started when `this` is as given.
Iterate(this, newRanges) ==
    LET source == IF newRanges.lazy /\ newRanges.isThis THEN this._ranges ELSE newRanges.items
    IN  IF newRanges.lazy THEN [i \in 1..Len(source) |-> createFromRange(source[i])] ELSE source

(***************************************************************************)
(* Private mutators                                                        *)
(***************************************************************************)
\* A _pushRange that checks nothing.
PushRangeUnchecked(this, range) ==
    [this EXCEPT !._ranges = Append(@, HeldBy(createFromRange(range), "selection"))]

\* A _pushRange that stores the range before it checks it.
PushRangeThenCheck(this, range) ==
    LET hits == {i \in 1..Len(this._ranges) : isIntersecting(range, this._ranges[i])}
        first == CHOOSE i \in hits : \A j \in hits : i <= j
        pushed == [this EXCEPT !._ranges = Append(@, HeldBy(createFromRange(range), "selection"))]
    IN  IF hits # {}
        THEN Throw(pushed, CKEditorError("view-selection-range-intersects", range, this._ranges[first]))
        ELSE pushed

\* A _pushRange that stores the range it is handed, not a copy of it.
PushRangeShared(this, range) ==
    LET hits == {i \in 1..Len(this._ranges) : isIntersecting(range, this._ranges[i])}
        first == CHOOSE i \in hits : \A j \in hits : i <= j
    IN  IF hits # {}
        THEN Throw(this, CKEditorError("view-selection-range-intersects", range, this._ranges[first]))
        ELSE [this EXCEPT !._ranges = Append(@, HeldBy(range, "selection"))]

_pushRange(this, range) ==
    LET hits == {i \in 1..Len(this._ranges) : isIntersecting(range, this._ranges[i])}
        first == CHOOSE i \in hits : \A j \in hits : i <= j
    IN  IF hits # {}
        THEN Throw(this, CKEditorError("view-selection-range-intersects", range, this._ranges[first]))
        ELSE [this EXCEPT !._ranges = Append(@, HeldBy(createFromRange(range), "selection"))]

_addRange(this, range, isBackwardArg) ==
    IF ~range.isRange
    THEN Throw(this, CKEditorError("view-selection-invalid-range", NoRange, NoRange))
    ELSE LET pushed == _pushRange(this, range)
         IN  IF Thrown(pushed) THEN pushed
             ELSE [pushed EXCEPT !._lastRangeBackward = isBackwardArg]

\* for ( const range of newRanges ) this._addRange( range ), from the i-th element on.
RECURSIVE AddEach(_, _, _)
AddEach(this, items, i) ==
    IF i > Len(items) THEN this
    ELSE LET added == _addRange(this, items[i], FALSE)
         IN  IF Thrown(added) THEN added ELSE AddEach(added, items, i + 1)

\* A _setRanges that forgets the direction of the last range.
SetRangesForward(this, newRanges, isLastBackward) ==
    LET cleared == [this EXCEPT !._ranges = <<>>]
    IN  AddEach(cleared, Iterate(cleared, newRanges), 1)

\* A _setRanges that puts the ranges and the flag back when an insertion fails.
SetRangesOrNothing(this, newRanges, isLastBackward) ==
    LET cleared == [this EXCEPT !._ranges = <<>>]
        looped == AddEach(cleared, Iterate(cleared, newRanges), 1)
    IN  IF Thrown(looped) THEN Throw(this, looped.thrown)
        ELSE [looped EXCEPT !._lastRangeBackward = isLastBackward]

_setRanges(this, newRanges, isLastBackward) ==
    LET cleared == [this EXCEPT !._ranges = <<>>]
        looped == AddEach(cleared, Iterate(cleared, newRanges), 1)
    IN  IF Thrown(looped) THEN looped
        ELSE [looped EXCEPT !._lastRangeBackward = isLastBackward]

\* An options object; given is FALSE for undefined, which reads as {}.
Undefined == [given |-> FALSE, backward |-> FALSE, fake |-> FALSE, label |-> ""]

Labels == {"", "label"}

Options == {Undefined} \cup [given : {TRUE}, backward : BOOLEAN, fake : BOOLEAN, label : Labels]

\* A _setFakeOptions that keeps the label it is handed also when fake is not set.
SetFakeOptionsKeepsLabel(this, options) ==
    [this EXCEPT !._isFake = options.fake, !._fakeSelectionLabel = options.label]

_setFakeOptions(this, options) ==
    [this EXCEPT !._isFake = options.fake,
                 !._fakeSelectionLabel = IF options.fake THEN options.label ELSE ""]

\* A _setFakeOptions call that is skipped when no options were handed in.
ThenSetFakeOptionsIfGiven(this, options) ==
    IF Thrown(this) \/ ~options.given THEN this ELSE _setFakeOptions(this, options)

\* this._setFakeOptions( options ) after a statement that may have thrown.
ThenSetFakeOptions(this, options) == IF Thrown(this) THEN this ELSE _setFakeOptions(this, options)

\* this.fire( 'change' ) after statements that may have thrown.
ThenFire(this) == IF Thrown(this) THEN this ELSE fire(this)

(***************************************************************************)
(* What _setTo is handed.  A Selection is this object itself or another   *)
(* one, given by its fields; a place is 'in', 'on' or an offset.           *)
(***************************************************************************)
SelectableNull == [kind |-> "null"]

SelectableSelection(selection) == [kind |-> "Selection", isThis |-> FALSE, selection |-> selection]

SelectableThis == [kind |-> "Selection", isThis |-> TRUE]

SelectableRange(range) == [kind |-> "Range", range |-> range]

SelectablePosition(position) == [kind |-> "Position", position |-> position]

SelectableNode(node) == [kind |-> "Node", node |-> node]

SelectableIterable(items) == [kind |-> "iterable", items |-> items]

\* Neither null, Selection, Range, Position, Node nor iterable: a number, say.
NotSelectable == [kind |-> "other"]

NoPlace == [given |-> FALSE, place |-> "", offset |-> 0]

Places(item) ==
    {NoPlace, [given |-> TRUE, place |-> "in", offset |-> 0], [given |-> TRUE, place |-> "on", offset |-> 0]}
        \cup {[given |-> TRUE, place |-> "offset", offset |-> k] : k \in Offsets(item)}

\* The Selection a Selection-kind selectable denotes while `this` is as given.
Deref(this, selectable) ==
    IF selectable.isThis
    THEN [isThis |-> TRUE, _ranges |-> this._ranges, _lastRangeBackward |-> this._lastRangeBackward,
          _isFake |-> this._isFake, _fakeSelectionLabel |-> this._fakeSelectionLabel]
    ELSE [isThis |-> FALSE, _ranges |-> selectable.selection._ranges,
          _lastRangeBackward |-> selectable.selection._lastRangeBackward,
          _isFake |-> selectable.selection._isFake,
          _fakeSelectionLabel |-> selectable.selection._fakeSelectionLabel]

(***************************************************************************)
(* Queries that read the ranges through getRanges.                         *)
(***************************************************************************)
\* The ranges a for-of over selection.getRanges() yields to a caller.
RangesOf(selection) == Iterate(selection, getRanges(Deref(selection, SelectableThis)))

\* The loop of getFirstRange from the i-th stored range on; NoRange is null.
RECURSIVE FirstFrom(_, _, _)
FirstFrom(this, i, first) ==
    IF i > Len(this._ranges) THEN first
    ELSE LET range == this._ranges[i]
         IN  FirstFrom(this, i + 1,
                       IF ~first.isRange \/ isBefore(range.start, first.start) THEN range ELSE first)

\* A getFirstRange that returns the range inserted first.
GetFirstRangeInserted(this) ==
    IF this._ranges # <<>> THEN createFromRange(this._ranges[1]) ELSE NoRange

getFirstRange(this) ==
    LET first == FirstFrom(this, 1, NoRange)
    IN  IF first.isRange THEN createFromRange(first) ELSE NoRange

\* The loop of getLastRange from the i-th stored range on; NoRange is null.
RECURSIVE LastFrom(_, _, _)
LastFrom(this, i, last) ==
    IF i > Len(this._ranges) THEN last
    ELSE LET range == this._ranges[i]
         IN  LastFrom(this, i + 1,
                      IF ~last.isRange \/ isAfter(range.end, last.end) THEN range ELSE last)

getLastRange(this) ==
    LET last == LastFrom(this, 1, NoRange)
    IN  IF last.isRange THEN createFromRange(last) ELSE NoRange

\* count( iterable )
count(ranges) == Len(ranges)

\* An isSimilar that compares the ranges as they are stored, untrimmed.
IsSimilarUntrimmed(this, otherSelection) ==
    IF isBackward(this) # isBackward(otherSelection) THEN FALSE
    ELSE LET rangesA == RangesOf(this)
             rangesB == RangesOf(otherSelection)
         IN  IF count(rangesA) # count(rangesB) THEN FALSE
             ELSE IF count(rangesA) = 0 THEN TRUE
             ELSE \A i \in DOMAIN rangesA :
                    \E j \in DOMAIN rangesB : rangeIsEqual(rangesA[i], rangesB[j])

isSimilar(this, otherSelection) ==
    IF isBackward(this) # isBackward(otherSelection) THEN FALSE
    ELSE LET rangesA == RangesOf(this)
             rangesB == RangesOf(otherSelection)
             numOfRangesA == count(rangesA)
             numOfRangesB == count(rangesB)
         IN  IF numOfRangesA # numOfRangesB THEN FALSE
             ELSE IF numOfRangesA = 0 THEN TRUE
             ELSE \A i \in DOMAIN rangesA :
                    LET rangeA == getTrimmed(rangesA[i])
                    IN  \E j \in DOMAIN rangesB :
                            LET rangeB == getTrimmed(rangesB[j])
                            IN  rangeA.start = rangeB.start /\ rangeA.end = rangeB.end

\* The if-else chain of _setTo: what it does before it fires 'change'.
Dispatch(this, selectable, optionsOrPlaceOrOffset, options) ==
            CASE selectable.kind = "null" ->
                    ThenSetFakeOptions(_setRanges(this, Array(<<>>), FALSE), optionsOrPlaceOrOffset)
              [] selectable.kind = "Selection" ->
                    LET ranged == _setRanges(this, getRanges(Deref(this, selectable)),
                                             isBackward(Deref(this, selectable)))
                    IN  ThenSetFakeOptions(ranged,
                            [given |-> TRUE, backward |-> FALSE,
                             fake |-> Deref(ranged, selectable)._isFake,
                             label |-> Deref(ranged, selectable)._fakeSelectionLabel])
              [] selectable.kind = "Range" ->
                    ThenSetFakeOptions(
                        _setRanges(this, Array(<<selectable.range>>),
                                   optionsOrPlaceOrOffset.given /\ optionsOrPlaceOrOffset.backward),
                        optionsOrPlaceOrOffset)
              [] selectable.kind = "Position" ->
                    ThenSetFakeOptions(
                        _setRanges(this, Array(<<Range(selectable.position, selectable.position)>>), FALSE),
                        optionsOrPlaceOrOffset)
              [] selectable.kind = "Node" ->
                    LET backward == options.given /\ options.backward
                        range == IF optionsOrPlaceOrOffset.place = "in" THEN createIn(selectable.node)
                                 ELSE IF optionsOrPlaceOrOffset.place = "on" THEN createOn(selectable.node)
                                 ELSE createCollapsedAt(selectable.node, optionsOrPlaceOrOffset.offset)
                    IN  IF ~optionsOrPlaceOrOffset.given
                        THEN Throw(this, CKEditorError("view-selection-setTo-required-second-parameter",
                                                       NoRange, NoRange))
                        ELSE ThenSetFakeOptions(_setRanges(this, Array(<<range>>), backward), options)
              [] selectable.kind = "iterable" ->
                    ThenSetFakeOptions(
                        _setRanges(this, Array(selectable.items),
                                   optionsOrPlaceOrOffset.given /\ optionsOrPlaceOrOffset.backward),
                        optionsOrPlaceOrOffset)
              [] OTHER ->
                    Throw(this, CKEditorError("view-selection-setTo-not-selectable", NoRange, NoRange))

\* A _setTo that fires 'change' only if it changed a field.
SetToFiresOnChange(this, selectable, optionsOrPlaceOrOffset, options) ==
    LET set == Dispatch(this, selectable, optionsOrPlaceOrOffset, options)
    IN  IF Fields(set) = Fields(this) THEN set ELSE ThenFire(set)

\* A _setTo that fires 'change' also when it throws.
SetToFiresAnyway(this, selectable, optionsOrPlaceOrOffset, options) ==
    fire(Dispatch(this, selectable, optionsOrPlaceOrOffset, options))

_setTo(this, selectable, optionsOrPlaceOrOffset, options) ==
    ThenFire(Dispatch(this, selectable, optionsOrPlaceOrOffset, options))

\* A _setFocus that adds the new range as a forward one whatever its direction.
SetFocusForward(this, itemOrPosition) ==
    IF anchor(this) = Null
    THEN Throw(this, CKEditorError("view-selection-setFocus-no-ranges", NoRange, NoRange))
    ELSE LET newFocus == createAt(itemOrPosition)
             anchorBefore == anchor(this)
             popped == [this EXCEPT !._ranges = SubSeq(@, 1, Len(@) - 1)]
             added == IF compareWith(newFocus, anchorBefore) = "before"
                      THEN _addRange(popped, Range(newFocus, anchorBefore), FALSE)
                      ELSE _addRange(popped, Range(anchorBefore, newFocus), FALSE)
         IN  IF compareWith(newFocus, focus(this)) = "same" THEN this
             ELSE ThenFire(added)

\* A _setFocus that does not return early when the focus is where it is moved to.
SetFocusAlways(this, itemOrPosition) ==
    IF anchor(this) = Null
    THEN Throw(this, CKEditorError("view-selection-setFocus-no-ranges", NoRange, NoRange))
    ELSE LET newFocus == createAt(itemOrPosition)
             anchorBefore == anchor(this)
             popped == [this EXCEPT !._ranges = SubSeq(@, 1, Len(@) - 1)]
             added == IF compareWith(newFocus, anchorBefore) = "before"
                      THEN _addRange(popped, Range(newFocus, anchorBefore), TRUE)
                      ELSE _addRange(popped, Range(anchorBefore, newFocus), FALSE)
         IN  ThenFire(added)

\* A _setFocus that fires 'change' once the last range is removed and adds the
\* new range after the listeners have returned.
SetFocusFiresEarly(this, itemOrPosition) ==
    IF anchor(this) = Null
    THEN Throw(this, CKEditorError("view-selection-setFocus-no-ranges", NoRange, NoRange))
    ELSE LET newFocus == createAt(itemOrPosition)
             anchorBefore == anchor(this)
             popped == fire([this EXCEPT !._ranges = SubSeq(@, 1, Len(@) - 1)])
         IN  IF compareWith(newFocus, focus(this)) = "same" THEN this
             ELSE IF Thrown(popped) THEN popped
             ELSE IF compareWith(newFocus, anchorBefore) = "before"
             THEN _addRange(popped, Range(newFocus, anchorBefore), TRUE)
             ELSE _addRange(popped, Range(anchorBefore, newFocus), FALSE)

_setFocus(this, itemOrPosition) ==
    IF anchor(this) = Null
    THEN Throw(this, CKEditorError("view-selection-setFocus-no-ranges", NoRange, NoRange))
    ELSE LET newFocus == createAt(itemOrPosition)
             anchorBefore == anchor(this)
             popped == [this EXCEPT !._ranges = SubSeq(@, 1, Len(@) - 1)]
             added == IF compareWith(newFocus, anchorBefore) = "before"
                      THEN _addRange(popped, Range(newFocus, anchorBefore), TRUE)
                      ELSE _addRange(popped, Range(anchorBefore, newFocus), FALSE)
         IN  IF compareWith(newFocus, focus(this)) = "same" THEN this
             ELSE ThenFire(added)

(***************************************************************************)
(* The selection, and the call that was made on it last.                   *)
(***************************************************************************)
VARIABLES _ranges, _lastRangeBackward, _isFake, _fakeSelectionLabel, call

vars == <<_ranges, _lastRangeBackward, _isFake, _fakeSelectionLabel, call>>

\* The object as the variables hold it.
This ==
    [_ranges |-> _ranges, _lastRangeBackward |-> _lastRangeBackward,
     _isFake |-> _isFake, _fakeSelectionLabel |-> _fakeSelectionLabel]

\* The fields as the constructor sets them before it calls _setTo.
constructor ==
    [_ranges |-> <<>>, _lastRangeBackward |-> FALSE, _isFake |-> FALSE, _fakeSelectionLabel |-> ""]

\* Whether _setRanges adds every one of items.
Accepted(items) == ~Thrown(_setRanges(Enter(constructor), Array(items), FALSE))

\* Arrays of at most MaxLen elements, each a range or something else, as far as
\* the for-of loop of _setRanges reads them: up to the first element it throws on.
Iterables ==
    {items \in UNION {[1..n -> Ranges \cup {NotARange}] : n \in 0..MaxLen} :
        \A k \in 0..(Len(items) - 1) : Accepted(SubSeq(items, 1, k))}

\* Arguments of _setTo and of the constructor, but for a Selection.
PlainArguments ==
    ({SelectableNull} \X Options \X {Undefined})
        \cup ({SelectableRange(range) : range \in Ranges} \X Options \X {Undefined})
        \cup ({SelectablePosition(position) : position \in Positions} \X Options \X {Undefined})
        \cup UNION {{SelectableNode(node)} \X Places(node) \X Options : node \in Nodes}
        \cup ({SelectableIterable(items) : items \in Iterables} \X Options \X {Undefined})
        \cup ({NotSelectable} \X {Undefined} \X {Undefined})

\* No call is under way: the caller has resumed.
Idle ==
    [method |-> "none", arguments |-> <<>>, listener |-> NoListener, before |-> constructor,
     thrown |-> Returned, fired |-> <<>>]

\* A call, run from entry until control leaves it: the fields it leaves, and
\* its record (the arguments, the listener that was registered, the fields at
\* entry, the error, the events).
LeaveListened(method, arguments, listener, done) ==
    /\ _ranges' = done._ranges
    /\ _lastRangeBackward' = done._lastRangeBackward
    /\ _isFake' = done._isFake
    /\ _fakeSelectionLabel' = done._fakeSelectionLabel
    /\ call' = [method |-> method, arguments |-> arguments, listener |-> listener, before |-> This,
                thrown |-> done.thrown, fired |-> done.fired]

\* A call made while no listener is registered.
Leave(method, arguments, done) == LeaveListened(method, arguments, NoListener, done)

\* new Selection( selectable, optionsOrPlaceOrOffset, options ) that returned.
Constructed(arguments) ==
    LET done == _setTo(Enter(constructor), arguments[1], arguments[2], arguments[3])
    IN  /\ ~Thrown(done)
        /\ _ranges = done._ranges
        /\ _lastRangeBackward = done._lastRangeBackward
        /\ _isFake = done._isFake
        /\ _fakeSelectionLabel = done._fakeSelectionLabel
        /\ call = [method |-> "constructor", arguments |-> arguments, listener |-> NoListener,
                   before |-> constructor, thrown |-> done.thrown, fired |-> done.fired]

\* The other selections there are: each as some constructor call returns it.
Selections ==
    {Fields(done) : done \in
        {d \in {_setTo(Enter(constructor), a[1], a[2], a[3]) : a \in PlainArguments} : ~Thrown(d)}}

Init == \E arguments \in PlainArguments : Constructed(arguments)

SetTo(arguments) ==
    Leave("_setTo", arguments, _setTo(Enter(This), arguments[1], arguments[2], arguments[3]))

SetToNull ==
    /\ call = Idle
    /\ \E options \in Options : SetTo(<<SelectableNull, options, Undefined>>)

SetToSelection ==
    /\ call = Idle
    /\ \E selection \in Selections : SetTo(<<SelectableSelection(selection), Undefined, Undefined>>)

SetToThis ==
    /\ call = Idle
    /\ SetTo(<<SelectableThis, Undefined, Undefined>>)

SetToRange ==
    /\ call = Idle
    /\ \E range \in Ranges, options \in Options :
            SetTo(<<SelectableRange(range), options, Undefined>>)

SetToPosition ==
    /\ call = Idle
    /\ \E position \in Positions, options \in Options :
            SetTo(<<SelectablePosition(position), options, Undefined>>)

SetToNode ==
    /\ call = Idle
    /\ \E node \in Nodes, options \in Options : \E place \in Places(node) :
            SetTo(<<SelectableNode(node), place, options>>)

SetToIterable ==
    /\ call = Idle
    /\ \E items \in Iterables, options \in Options :
            SetTo(<<SelectableIterable(items), options, Undefined>>)

SetToNotSelectable ==
    /\ call = Idle
    /\ SetTo(<<NotSelectable, Undefined, Undefined>>)

SetFocus ==
    /\ call = Idle
    /\ \E position \in Positions :
            Leave("_setFocus", <<position>>, _setFocus(Enter(This), position))

\* The caller resumes after the call.
Resume ==
    /\ call # Idle
    /\ call' = Idle
    /\ UNCHANGED <<_ranges, _lastRangeBackward, _isFake, _fakeSelectionLabel>>

Next ==
    \/ SetToNull
    \/ SetToSelection
    \/ SetToThis
    \/ SetToRange
    \/ SetToPosition
    \/ SetToNode
    \/ SetToIterable
    \/ SetToNotSelectable
    \/ SetFocus
    \/ Resume

Spec == Init /\ [][Next]_vars

(***************************************************************************)
(* Calls made while a 'change' listener is registered that calls _setTo or *)
(* _setFocus on the same selection.                                        *)
(***************************************************************************)
\* The options a listener hands to _setTo.
ListenerOptions ==
    {Undefined, [given |-> TRUE, backward |-> TRUE, fake |-> TRUE, label |-> "label"]}

\* What the listener does when it is called.
Reactions ==
    {[method |-> "_setTo", arguments |-> <<SelectableRange(range), options, Undefined>>] :
        range \in Ranges, options \in ListenerOptions}
        \cup {[method |-> "_setTo", arguments |-> <<SelectableNull, Undefined, Undefined>>],
              [method |-> "_setTo", arguments |-> <<NotSelectable, Undefined, Undefined>>]}
        \cup {[method |-> "_setFocus", arguments |-> <<position>>] : position \in Positions}

ListenedSetTo ==
    /\ call = Idle
    /\ \E range \in Ranges, options \in Options, listener \in Reactions :
            LeaveListened("_setTo", <<SelectableRange(range), options, Undefined>>, listener,
                          _setTo(Listened(This, listener), SelectableRange(range), options, Undefined))

ListenedSetFocus ==
    /\ call = Idle
    /\ \E position \in Positions, listener \in Reactions :
            LeaveListened("_setFocus", <<position>>, listener,
                          _setFocus(Listened(This, listener), position))

NextReentrant ==
    \/ ListenedSetTo
    \/ ListenedSetFocus
    \/ Resume

SpecReentrant == Init /\ [][NextReentrant]_vars

(***************************************************************************)
(* Properties.  call.before holds the fields at entry of the last call,    *)
(* the variables the fields when control left it.                          *)
(***************************************************************************)
Returns == call.thrown = Returned

IsSetTo == call.method \in {"_setTo", "constructor"}

Selectable == call.arguments[1]

\* The position _setFocus was asked to move the focus to.
Target == call.arguments[1]

\* C1: in every state reachable by constructor, _setTo and _setFocus calls, those
\* that throw included, no two distinct stored ranges intersect.
StoredRangesNeverIntersect ==
    \A i \in DOMAIN _ranges, j \in DOMAIN _ranges :
        i # j => ~isIntersecting(_ranges[i], _ranges[j])

\* Two ranges are stored after a _setFocus that replaced the last one.
StoredRangesNeverIntersectWitness ==
    /\ call.method = "_setFocus"
    /\ Returns
    /\ Len(_ranges) = 2
    /\ _ranges # call.before._ranges

\* C2: whenever a _setTo or _setFocus call leaves the stored ranges other than it
\* found them, a 'change' event was fired during the call.
ChangeFiredWhenRangesChange ==
    call.method \in {"_setTo", "_setFocus"} /\ _ranges # call.before._ranges
        => Len(call.fired) > 0

\* C3: a _setTo that returns fires exactly one 'change' event, also when nothing
\* changed or no range is left, and fires it when the ranges, the direction flag
\* and the fake metadata are all as the call leaves them.
SetToFiresOnceWhenUpdated ==
    call.method = "_setTo" /\ Returns
        => Len(call.fired) = 1 /\ call.fired[1] = This

\* A _setTo( null ) on an empty selection returned, changed nothing and fired.
SetToFiresOnceWhenUpdatedWitness ==
    /\ call.method = "_setTo"
    /\ Returns
    /\ _ranges = <<>>
    /\ This = call.before
    /\ Len(call.fired) = 1

\* Every state of the selection is one some constructor call returns, so that
\* Selections holds every selection another object can be.
EverySelectionIsConstructible == This \in Selections

\* C4: after s._setTo( other ) for another Selection, s stores copies of the ranges
\* of other in the same order, isBackward, anchor, focus, isFake and
\* fakeSelectionLabel are those of other, and s.isEqual( other ).
SetToSelectionCopies ==
    call.method = "_setTo" /\ Selectable.kind = "Selection" /\ ~Selectable.isThis
        => LET other == Selectable.selection
           IN  /\ Returns
               /\ _ranges = other._ranges
               /\ isBackward(This) = isBackward(other)
               /\ anchor(This) = anchor(other)
               /\ focus(This) = focus(other)
               /\ _isFake = other._isFake
               /\ _fakeSelectionLabel = other._fakeSelectionLabel
               /\ isEqual(This, other)

\* A backward fake selection of two different ranges was copied over another state.
SetToSelectionCopiesWitness ==
    /\ call.method = "_setTo"
    /\ Selectable.kind = "Selection"
    /\ ~Selectable.isThis
    /\ Returns
    /\ Len(_ranges) = 2
    /\ _ranges[1] # _ranges[2]
    /\ isBackward(This)
    /\ _fakeSelectionLabel = "label"
    /\ call.before._ranges # _ranges

\* The ranges a _setTo or constructor call was handed, if it was handed ranges.
InputRanges ==
    IF Selectable.kind = "Range" THEN <<Selectable.range>> ELSE Selectable.items

BackwardIffFocusBeforeAnchor ==
    Len(_ranges) >= 1 => (isBackward(This) <=> isBefore(focus(This), anchor(This)))

\* C7: a _setFocus( target ) that returns, target not being the focus, leaves the
\* anchor where it was, the focus at target, as many ranges as before, the last
\* one spanning anchor..target, the others and the fake metadata as they were,
\* the last range backward exactly if target is before the anchor, and fires
\* exactly one 'change' event.
SetFocusMovesFocus ==
    call.method = "_setFocus" /\ Returns /\ Target # focus(call.before)
        => LET n == Len(call.before._ranges)
               anchorBefore == anchor(call.before)
           IN  /\ anchor(This) = anchorBefore
               /\ focus(This) = Target
               /\ Len(_ranges) = n
               /\ rangeIsEqual(_ranges[n], IF isBefore(Target, anchorBefore)
                                            THEN Range(Target, anchorBefore)
                                            ELSE Range(anchorBefore, Target))
               /\ SubSeq(_ranges, 1, n - 1) = SubSeq(call.before._ranges, 1, n - 1)
               /\ _isFake = call.before._isFake
               /\ _fakeSelectionLabel = call.before._fakeSelectionLabel
               /\ _lastRangeBackward = isBefore(Target, anchorBefore)
               /\ Len(call.fired) = 1

\* The focus of the second of two ranges was moved before its anchor.
SetFocusMovesFocusWitness ==
    /\ call.method = "_setFocus"
    /\ Returns
    /\ Len(_ranges) = 2
    /\ ~call.before._lastRangeBackward
    /\ isBefore(Target, anchor(call.before))
    /\ focus(This) = Target

\* C8: _setFocus to where the focus is changes neither the stored ranges and their
\* order, nor the direction flag, nor the fake metadata, and fires no event.
SetFocusToFocusChangesNothing ==
    call.method = "_setFocus" /\ call.before._ranges # <<>>
                              /\ compareWith(Target, focus(call.before)) = "same"
        => Returns /\ This = call.before /\ call.fired = <<>>

\* _setFocus was called with the focus of a two-range selection.
SetFocusToFocusChangesNothingWitness ==
    /\ call.method = "_setFocus"
    /\ Len(call.before._ranges) = 2
    /\ Target = focus(call.before)
    /\ Returns

\* The range the call tried to insert when it threw, the stored ranges and the
\* direction flag right before that insertion.
Attempt ==
    IF call.method = "_setFocus"
    THEN LET a == anchor(call.before)
         IN  [range |-> IF isBefore(Target, a) THEN Range(Target, a) ELSE Range(a, Target),
              stored |-> SubSeq(call.before._ranges, 1, Len(call.before._ranges) - 1),
              flag |-> call.before._lastRangeBackward]
    ELSE LET items == Selectable.items
             k == CHOOSE k \in 1..Len(items) :
                    /\ \E j \in 1..(k - 1) : isIntersecting(items[k], items[j])
                    /\ \A m \in 1..(k - 1) : \A j \in 1..(m - 1) : ~isIntersecting(items[m], items[j])
         IN  [range |-> items[k],
              stored |-> [i \in 1..(k - 1) |-> HeldBy(createFromRange(items[i]), "selection")],
              flag |-> FALSE]

\* The call came to insert a range that intersects one stored by then: _setFocus
\* with anchor..target, _setTo with an element of the iterable.
AttemptIntersects ==
    \/ /\ call.method = "_setFocus"
       /\ call.before._ranges # <<>>
       /\ Target # focus(call.before)
       /\ LET attempt == Attempt
          IN  \E i \in DOMAIN attempt.stored : isIntersecting(attempt.range, attempt.stored[i])
    \/ /\ call.method = "_setTo"
       /\ Selectable.kind = "iterable"
       /\ \E k \in DOMAIN Selectable.items :
            /\ \A m \in 1..k : Selectable.items[m].isRange
            /\ \E j \in 1..(k - 1) : isIntersecting(Selectable.items[k], Selectable.items[j])

\* C9: inserting a range that intersects a stored one fails with the
\* range-intersects error, which carries the range and the first stored range it
\* intersects, and leaves the stored ranges and the direction flag as they were
\* right before the insertion.
IntersectingRangeRejected ==
    LET intersects == AttemptIntersects
        attempt == Attempt
    IN  /\ intersects <=> call.thrown.code = "view-selection-range-intersects"
        /\ intersects
            => /\ call.thrown.addedRange = attempt.range
               /\ \E i \in DOMAIN attempt.stored :
                    /\ call.thrown.intersectingRange = attempt.stored[i]
                    /\ isIntersecting(attempt.range, attempt.stored[i])
                    /\ \A j \in 1..(i - 1) : ~isIntersecting(attempt.range, attempt.stored[j])
               /\ _ranges = attempt.stored
               /\ _lastRangeBackward = attempt.flag

\* A _setFocus before the anchor threw on a range stored earlier.
IntersectingRangeRejectedWitness ==
    /\ AttemptIntersects
    /\ call.method = "_setFocus"
    /\ call.thrown.code = "view-selection-range-intersects"
    /\ isBefore(Target, anchor(call.before))
    /\ ~call.before._lastRangeBackward
    /\ Len(_ranges) = 1

\* The error of a call that fails on its arguments, "none" for any other call.
ArgumentError ==
    IF call.method = "_setFocus" /\ call.before._ranges = <<>>
    THEN "view-selection-setFocus-no-ranges"
    ELSE IF call.method = "_setTo" /\ Selectable.kind = "Node" /\ ~call.arguments[2].given
    THEN "view-selection-setTo-required-second-parameter"
    ELSE IF call.method = "_setTo" /\ Selectable.kind = "other"
    THEN "view-selection-setTo-not-selectable"
    ELSE "none"

\* C10: _setFocus on a selection without ranges, _setTo with a node and no second
\* argument and _setTo with something not selectable throw their error, fire no
\* 'change' event and leave the ranges, the direction flag and the fake
\* metadata as they were.
ArgumentErrorChangesNothing ==
    ArgumentError # "none"
        => /\ call.thrown.code = ArgumentError
           /\ call.fired = <<>>
           /\ This = call.before

\* _setTo with a node and no place threw on a backward fake selection.
ArgumentErrorChangesNothingWitness ==
    /\ call.method = "_setTo"
    /\ Selectable.kind = "Node"
    /\ ~call.arguments[2].given
    /\ call.thrown.code = "view-selection-setTo-required-second-parameter"
    /\ Len(_ranges) = 2
    /\ _lastRangeBackward
    /\ _isFake

\* C11: in every state reachable by constructor, _setTo and _setFocus calls, those
\* that throw included, the fake selection label is empty whenever the selection
\* is not fake.
LabelEmptyUnlessFake == ~_isFake => _fakeSelectionLabel = ""

\* A _setTo with options { fake: false, label: 'label' } returned on a selection
\* that was fake and labelled.
LabelEmptyUnlessFakeWitness ==
    /\ call.method = "_setTo"
    /\ Returns
    /\ Selectable.kind = "Range"
    /\ call.arguments[2].given
    /\ ~call.arguments[2].fake
    /\ call.arguments[2].label = "label"
    /\ call.before._isFake
    /\ call.before._fakeSelectionLabel = "label"
    /\ ~_isFake

\* The options of a _setTo call: its second argument, its third for a node.
FakeOptions == IF Selectable.kind = "Node" THEN call.arguments[3] ELSE call.arguments[2]

\* C12: after a _setTo that returns and whose selectable is not a Selection, the
\* selection is fake exactly if the fake option of the call is set, and its label
\* is the label option if the fake option is set and a label was given, empty
\* otherwise; so a _setTo without options clears an earlier fake flag and label.
SetToAppliesFakeOptions ==
    IsSetTo /\ Returns /\ Selectable.kind # "Selection"
        => /\ _isFake = (FakeOptions.given /\ FakeOptions.fake)
           /\ _fakeSelectionLabel = IF FakeOptions.given /\ FakeOptions.fake /\ FakeOptions.label # ""
                                    THEN FakeOptions.label ELSE ""

\* A _setTo with a node and a place but no options returned on a selection that
\* was fake and labelled.
SetToAppliesFakeOptionsWitness ==
    /\ call.method = "_setTo"
    /\ Returns
    /\ Selectable.kind = "Node"
    /\ ~call.arguments[3].given
    /\ call.before._isFake
    /\ call.before._fakeSelectionLabel = "label"
    /\ ~_isFake
    /\ _fakeSelectionLabel = ""

\* How often a range from start to end occurs in ranges.
Occurrences(ranges, start, end) ==
    Cardinality({i \in DOMAIN ranges : ranges[i].start = start /\ ranges[i].end = end})

\* The two sequences hold the same ranges as often, in whatever order.
EqualAsMultisets(ranges, otherRanges) ==
    \A start \in Positions, end \in Positions :
        Occurrences(ranges, start, end) = Occurrences(otherRanges, start, end)

\* C13: a.isEqual( b ) is true exactly when the fake flags are equal, the labels
\* are equal if both are fake, and either both have no ranges or the anchors
\* are equal, the focuses are equal and the stored ranges are equal as unordered
\* multisets.
IsEqualComparesMultisets ==
    \A b \in Selections :
        isEqual(This, b)
            <=> /\ _isFake = b._isFake
                /\ _isFake /\ b._isFake => _fakeSelectionLabel = b._fakeSelectionLabel
                /\ \/ _ranges = <<>> /\ b._ranges = <<>>
                   \/ /\ anchor(This) = anchor(b)
                      /\ focus(This) = focus(b)
                      /\ EqualAsMultisets(_ranges, b._ranges)

\* The selection with the fake flag and the label cleared.
NotFake(selection) == [selection EXCEPT !._isFake = FALSE, !._fakeSelectionLabel = ""]

\* Every range of a, trimmed, has a range of b whose trimmed start and end are equal.
TrimmedRangesMatch(a, b) ==
    \A i \in DOMAIN a._ranges :
        \E j \in DOMAIN b._ranges :
            /\ getTrimmed(a._ranges[i]).start = getTrimmed(b._ranges[j]).start
            /\ getTrimmed(a._ranges[i]).end = getTrimmed(b._ranges[j]).end

\* C14: a.isSimilar( b ) is false if a.isBackward differs from b.isBackward or
\* the range counts differ, true if both have no ranges, and otherwise true
\* exactly when every trimmed range of a has a trimmed range of b with equal
\* start and end, the three cases taken in this order; the fake flags and labels
\* play no part.  Stated of the selection a caller holds between two calls,
\* against every other selection.
IsSimilarComparesTrimmedRanges ==
    call = Idle
        => \A b \in Selections :
            LET similar == isSimilar(This, b)
            IN  /\ isBackward(This) # isBackward(b) \/ Len(_ranges) # Len(b._ranges)
                        => ~similar
                /\ isBackward(This) = isBackward(b) /\ _ranges = <<>> /\ b._ranges = <<>>
                        => similar
                /\ isBackward(This) = isBackward(b) /\ Len(_ranges) = Len(b._ranges) /\ _ranges # <<>>
                        => (similar <=> TrimmedRangesMatch(This, b))
                /\ similar = isSimilar(NotFake(This), NotFake(b))

\* A fake selection of one range is similar to one that is not fake and whose
\* range differs from it but trims to the same.
IsSimilarComparesTrimmedRangesWitness ==
    /\ call = Idle
    /\ _isFake
    /\ Len(_ranges) = 1
    /\ \E b \in Selections :
            /\ ~b._isFake
            /\ Len(b._ranges) = 1
            /\ ~rangeIsEqual(_ranges[1], b._ranges[1])
            /\ isSimilar(This, b)

\* Two zero-width ranges are stored at the same position.
TwoCollapsedAtOnePosition ==
    \E i \in DOMAIN _ranges, j \in DOMAIN _ranges :
        /\ i # j
        /\ isCollapsed(_ranges[i])
        /\ isCollapsed(_ranges[j])
        /\ _ranges[i].start = _ranges[j].start

BatchFailed == call.method = "_setTo" /\ Selectable.kind = "iterable" /\ ~Returns

\* The place in the iterable of the first element that is no range or that
\* intersects an element before it.
FailedAt ==
    LET items == Selectable.items
        Fails(k) == ~items[k].isRange \/ \E j \in 1..(k - 1) : isIntersecting(items[k], items[j])
    IN  CHOOSE k \in DOMAIN items : Fails(k) /\ \A m \in 1..(k - 1) : ~Fails(m)

\* What a failed batch leaves whatever the place of the failure: the first
\* FailedAt - 1 ranges of the batch in order and nothing else, the fake flag and
\* label as before the call, no 'change' event.
BatchLeavesPrefix ==
    /\ call.thrown.code \in {"view-selection-invalid-range", "view-selection-range-intersects"}
    /\ Len(_ranges) = FailedAt - 1
    /\ \A i \in DOMAIN _ranges : rangeIsEqual(_ranges[i], Selectable.items[i])
    /\ _isFake = call.before._isFake
    /\ _fakeSelectionLabel = call.before._fakeSelectionLabel
    /\ call.fired = <<>>

\* C17 as stated: a _setTo with an iterable that fails at its k-th range leaves
\* exactly the first k-1 ranges of the batch in order, the last-range direction
\* flag false, the fake flag and label as before the call, and fires no 'change'.
BatchFailureClearsDirection ==
    BatchFailed => BatchLeavesPrefix /\ ~_lastRangeBackward

\* C17: a _setTo with an iterable that fails at its k-th range leaves exactly the
\* first k-1 ranges of the batch in order, the last-range direction flag false
\* if k > 1 and as it was before the call if k = 1, the fake flag and label as
\* before the call, and fires no 'change'.
BatchFailureLeavesPrefix ==
    BatchFailed
        => /\ BatchLeavesPrefix
           /\ _lastRangeBackward = IF FailedAt > 1 THEN FALSE ELSE call.before._lastRangeBackward

\* A batch failed at its second range on a backward fake selection that held two
\* other ranges: one range of the batch is left, forward, still fake.
BatchFailureLeavesPrefixWitness ==
    /\ BatchFailed
    /\ FailedAt = 2
    /\ Len(call.before._ranges) = 2
    /\ call.before._lastRangeBackward
    /\ call.before._isFake
    /\ \A i \in DOMAIN call.before._ranges : ~rangeIsEqual(call.before._ranges[i], _ranges[1])
    /\ Len(_ranges) = 1
    /\ _isFake

\* The fields the listener found when it was called.
Heard == call.fired[1]

\* The range and the options the outer _setTo, or the _setTo of the listener,
\* was handed.
SetToLeft(fields, arguments) ==
    /\ Len(fields._ranges) = 1
    /\ rangeIsEqual(fields._ranges[1], arguments[1].range)
    /\ fields._ranges[1].heldBy = {"selection"}
    /\ fields._lastRangeBackward = (arguments[2].given /\ arguments[2].backward)
    /\ fields._isFake = (arguments[2].given /\ arguments[2].fake)
    /\ fields._fakeSelectionLabel = IF arguments[2].given /\ arguments[2].fake
                                    THEN arguments[2].label ELSE ""

\* fields is what a _setFocus to target leaves that found the selection as from
\* and moved the focus.
SetFocusLeft(fields, from, target) ==
    /\ Len(fields._ranges) = Len(from._ranges)
    /\ SubSeq(fields._ranges, 1, Len(from._ranges) - 1) = SubSeq(from._ranges, 1, Len(from._ranges) - 1)
    /\ anchor(fields) = anchor(from)
    /\ focus(fields) = target
    /\ fields._isFake = from._isFake
    /\ fields._fakeSelectionLabel = from._fakeSelectionLabel

\* C18: when a 'change' listener calls _setTo or _setFocus on the selection it
\* hears from, it finds the outer call's work complete (after _setTo the new
\* range with its direction and the fake metadata of the call, after _setFocus
\* the last range replaced, never only removed), and when the outer call ends
\* the selection is as the listener's call left it: as that call fired it if it
\* returned, as the listener found it if that call did nothing, and without its
\* last range if the listener's _setFocus failed; the outer call changes
\* nothing after the listener.
ListenerSeesOuterCallComplete ==
    call.listener # NoListener /\ call.fired # <<>>
        => /\ call.method = "_setTo" => SetToLeft(Heard, call.arguments)
           /\ call.method = "_setFocus" => SetFocusLeft(Heard, call.before, Target)
           /\ LET nested == call.listener
              IN  IF nested.method = "_setTo" /\ nested.arguments[1].kind = "Range"
                  THEN Returns /\ Len(call.fired) = 2 /\ This = call.fired[2]
                               /\ SetToLeft(This, nested.arguments)
                  ELSE IF nested.method = "_setTo" /\ nested.arguments[1].kind = "null"
                  THEN Returns /\ Len(call.fired) = 2 /\ This = call.fired[2]
                               /\ This = constructor
                  ELSE IF nested.method = "_setTo"
                  THEN /\ call.thrown.code = "view-selection-setTo-not-selectable"
                       /\ Len(call.fired) = 1
                       /\ This = Heard
                  ELSE IF nested.arguments[1] = focus(Heard)
                  THEN Returns /\ Len(call.fired) = 1 /\ This = Heard
                  ELSE IF Returns
                  THEN /\ Len(call.fired) = 2
                       /\ This = call.fired[2]
                       /\ SetFocusLeft(This, Heard, nested.arguments[1])
                  ELSE /\ call.thrown.code = "view-selection-range-intersects"
                       /\ Len(call.fired) = 1
                       /\ This = [Heard EXCEPT !._ranges = SubSeq(@, 1, Len(@) - 1)]

\* A _setFocus moved the focus of the second of two ranges, and the listener
\* then set the selection to one backward fake range: the listener found two
\* ranges, the call left one.
ListenerSeesOuterCallCompleteWitness ==
    /\ call.method = "_setFocus"
    /\ call.listener.method = "_setTo"
    /\ Returns
    /\ Len(call.fired) = 2
    /\ Len(Heard._ranges) = 2
    /\ Heard._ranges # call.before._ranges
    /\ ~Heard._isFake
    /\ Len(_ranges) = 1
    /\ _isFake

\* C19: a _setFocus that fails with the range-intersects error leaves the
\* selection as it was before the call: the same stored ranges in the same
\* order, the same anchor, focus and direction.
FailedSetFocusChangesNothing ==
    call.method = "_setFocus" /\ call.thrown.code = "view-selection-range-intersects"
        => /\ _ranges = call.before._ranges
           /\ anchor(This) = anchor(call.before)
           /\ focus(This) = focus(call.before)
           /\ isBackward(This) = isBackward(call.before)

\* C20: s._setTo( s ) leaves the stored ranges and their order, anchor, focus,
\* isBackward, isFake and fakeSelectionLabel as they were before the call.
SetToItselfChangesNothing ==
    call.method = "_setTo" /\ Selectable.kind = "Selection" /\ Selectable.isThis
        => /\ _ranges = call.before._ranges
           /\ anchor(This) = anchor(call.before)
           /\ focus(This) = focus(call.before)
           /\ isBackward(This) = isBackward(call.before)
           /\ _isFake = call.before._isFake
           /\ _fakeSelectionLabel = call.before._fakeSelectionLabel

\* C21: isEqual is symmetric: a.isEqual( b ) equals b.isEqual( a ) for the
\* selection a caller holds and every other selection, also when one of them
\* stores several zero-width ranges at the same position.
IsEqualSymmetric ==
    \A b \in Selections : isEqual(This, b) = isEqual(b, This)

\* C22: equality implies similarity: if a.isEqual( b ) then a.isSimilar( b ), for
\* the selection a caller holds and every other selection, also when the range
\* inserted last of several is collapsed.
IsEqualImpliesIsSimilar ==
    \A b \in Selections : isEqual(This, b) => isSimilar(This, b)

====
